---- MODULE Spec2Model ----
(***************************************************************************)
(* Model of main.py: the LearningPathGenerator (catalog, skill assessment, *)
(* path builder, resource generator) and the Streamlit session around it   *)
(* (session_state.user_profile / learning_path / progress, the "Generate   *)
(* My Learning Path" button and the per-module "Start" buttons).           *)
(*                                                                         *)
(* Randomness.  Every handler run consumes a stream of pseudo-random       *)
(* numbers.  A run is given a tape, chosen among NumSeeds tapes, and the   *)
(* k-th call of random.randint / random.choice in that run reads position  *)
(* k of the tape.  A tape position is a fraction u = Tape/TapeDen in [0,1) *)
(* and randint(a, b) is a + floor(u * (b - a + 1)).  Tape 0 is all-lowest, *)
(* tape 1 all-highest, the other tapes are mixed.                          *)
(*                                                                         *)
(* Not modelled: created_date (the wall clock), the rendering of charts    *)
(* and metrics.  7.5 hours per week is kept exact by counting half hours.  *)
(***************************************************************************)
EXTENDS Integers, Sequences, FiniteSets, TLC

VARIABLES user_profile, learning_path, progress, last, clicks, call, result

vars == <<user_profile, learning_path, progress, last, clicks, call, result>>

(* ---------------------------- bounds ----------------------------------- *)
\* number of random tapes a handler run can be given
NumSeeds == 3
\* resolution of a tape position (u = n / TapeDen)
TapeDen == 100
\* number of settings of the sidebar form a session tries (see FormSettings)
NumSettings == 10
\* number of button clicks in one session
MaxClicks == 3

(* ---------------------------- Python values ---------------------------- *)
None == [none |-> TRUE]

Seeds == 0 .. (NumSeeds - 1)

Tape(seed, k) ==
    IF seed = 0 THEN 0
    ELSE IF seed = 1 THEN TapeDen - 1
    ELSE (seed * 37 + k * 61) % TapeDen

randint(a, b, seed, k) == a + ((Tape(seed, k) * (b - a + 1)) \div TapeDen)

choice(seq, seed, k) == seq[1 + ((Tape(seed, k) * Len(seq)) \div TapeDen)]

Range(seq) == {seq[i] : i \in 1 .. Len(seq)}

RECURSIVE sum(_)
sum(s) == IF s = <<>> THEN 0 ELSE Head(s) + sum(Tail(s))

(* ---------------------------- catalog ---------------------------------- *)
skills_database ==
    ( "Data Science" :>
        [prerequisites |-> <<"Python Basics", "Statistics">>,
         modules |-> <<"Data Analysis", "Machine Learning", "Data Visualization", "Deep Learning">>,
         difficulty |-> "Advanced", duration_weeks |-> 16] ) @@
    ( "Web Development" :>
        [prerequisites |-> <<"HTML/CSS", "JavaScript">>,
         modules |-> <<"Frontend Frameworks", "Backend Development", "Databases", "Deployment">>,
         difficulty |-> "Intermediate", duration_weeks |-> 12] ) @@
    ( "Machine Learning" :>
        [prerequisites |-> <<"Python", "Mathematics", "Statistics">>,
         modules |-> <<"Supervised Learning", "Unsupervised Learning", "Neural Networks", "MLOps">>,
         difficulty |-> "Advanced", duration_weeks |-> 20] ) @@
    ( "Cloud Computing" :>
        [prerequisites |-> <<"Basic Networking", "Linux Commands">>,
         modules |-> <<"AWS/Azure Basics", "Infrastructure as Code", "Containers", "DevOps">>,
         difficulty |-> "Intermediate", duration_weeks |-> 14] ) @@
    ( "Cybersecurity" :>
        [prerequisites |-> <<"Networking", "Operating Systems">>,
         modules |-> <<"Security Fundamentals", "Ethical Hacking", "Incident Response", "Compliance">>,
         difficulty |-> "Advanced", duration_weeks |-> 18] )

\* the keys, in order (the options of the select boxes)
career_goals ==
    <<"Data Science", "Web Development", "Machine Learning", "Cloud Computing", "Cybersecurity">>

learning_styles == <<"Visual", "Auditory", "Kinesthetic", "Reading/Writing">>

base_resources ==
    ( "Visual" :> <<"Interactive Diagrams", "Video Tutorials", "Infographics">> ) @@
    ( "Auditory" :> <<"Podcasts", "Video Lectures", "Discussion Forums">> ) @@
    ( "Kinesthetic" :> <<"Hands-on Projects", "Labs", "Simulations">> ) @@
    ( "Reading/Writing" :> <<"Documentation", "Books", "Written Exercises">> )

\* hours per week, in half hours (7.5 -> 15, 15 -> 30, 25 -> 50)
weekly_hours ==
    ( "Low (5-10 hrs/week)" :> 15 ) @@
    ( "Medium (10-20 hrs/week)" :> 30 ) @@
    ( "High (20+ hrs/week)" :> 50 )

time_commitments ==
    <<"Low (5-10 hrs/week)", "Medium (10-20 hrs/week)", "High (20+ hrs/week)">>

relevant_skills == <<"Python", "Mathematics", "Statistics", "Machine Learning", "Data Analysis">>

slider_options == <<"Beginner", "Intermediate", "Advanced">>

\* the labels a resource's difficulty is chosen among
resource_difficulties == <<"Beginner", "Intermediate", "Advanced">>

(* ---------------------------- dicts ------------------------------------ *)
\* dict.get(key, default)
get(d, key, default) == IF key \in DOMAIN d THEN d[key] ELSE default

\* the keys of a skill mapping in insertion order (the order of relevant_skills)
keys_in_order(d) == SelectSeq(relevant_skills, LAMBDA s : s \in DOMAIN d)

index_of(seq, x) == CHOOSE i \in 1 .. Len(seq) : seq[i] = x

(* ---------------------------- assess_current_skills -------------------- *)
skill_level_wide(response, seed, k) ==
    IF response = "Beginner" THEN randint(1, 3, seed, k)
    ELSE IF response = "Intermediate" THEN randint(4, 8, seed, k)
    ELSE randint(7, 10, seed, k)

skill_level(response, seed, k) ==
    IF response = "Beginner" THEN randint(1, 3, seed, k)
    ELSE IF response = "Intermediate" THEN randint(4, 7, seed, k)
    ELSE randint(7, 10, seed, k)

\* the k-th skill of the mapping takes the k-th random number of the run
assess_current_skills(user_responses, seed) ==
    [skill \in DOMAIN user_responses |->
        skill_level(user_responses[skill], seed,
                    index_of(keys_in_order(user_responses), skill) - 1)]

(* ---------------------------- get_resources_for_module ----------------- *)
resource_types_nodefault(learning_style) ==
    get(base_resources, learning_style, <<>>)

resource_types(learning_style) ==
    get(base_resources, learning_style, <<"Mixed Resources">>)

\* one resource takes two random numbers: the time, then the difficulty
resource_record(module, resource_type, seed, k) ==
    [type |-> resource_type,
     title |-> module \o " - " \o resource_type,
     estimated_time |-> ToString(randint(2, 8, seed, k)) \o " hours",
     difficulty |-> choice(resource_difficulties, seed, k + 1)]

get_resources_for_module(module, learning_style, seed, pos) ==
    LET types == resource_types(learning_style)
    IN  [j \in 1 .. Len(types) |->
            resource_record(module, types[j], seed, pos + 2 * (j - 1))]

(* ---------------------------- generate_personalized_path --------------- *)
module_hours_wide(seed, k) == randint(15, 45, seed, k)

module_hours(seed, k) == randint(15, 40, seed, k)

\* one module takes 1 + 2 * (number of resources) random numbers
module_info(module, base_path, learning_style, seed, k) ==
    [name |-> module,
     estimated_hours |-> module_hours(seed, k),
     resources |-> get_resources_for_module(module, learning_style, seed, k + 1),
     prerequisites_met |-> TRUE,
     difficulty |-> base_path.difficulty]

adjusted_modules_reversed(base_path, learning_style, seed, pos) ==
    LET n == Len(base_path.modules)
        stride == 1 + 2 * Len(resource_types(learning_style))
    IN  [i \in 1 .. n |->
            module_info(base_path.modules[n + 1 - i], base_path, learning_style,
                        seed, pos + (i - 1) * stride)]

adjusted_modules(base_path, learning_style, seed, pos) ==
    LET stride == 1 + 2 * Len(resource_types(learning_style))
    IN  [i \in 1 .. Len(base_path.modules) |->
            module_info(base_path.modules[i], base_path, learning_style,
                        seed, pos + (i - 1) * stride)]

\* in half hours, as weekly_hours
hours_per_week(time_commitment) == get(weekly_hours, time_commitment, 30)

total_hours_skip_first(modules) ==
    sum([i \in 1 .. (Len(modules) - 1) |-> modules[i + 1].estimated_hours])

total_hours(modules) ==
    sum([i \in 1 .. Len(modules) |-> modules[i].estimated_hours])

\* int(total / hours_per_week), rounding to nearest instead of truncating
estimated_weeks_round(total, half_hours_per_week) ==
    (4 * total + half_hours_per_week) \div (2 * half_hours_per_week)

\* int(total / hours_per_week): truncation of a non-negative quotient
estimated_weeks(total, half_hours_per_week) ==
    (2 * total) \div half_hours_per_week

generate_personalized_path(profile, seed, pos) ==
    IF profile.career_goal \in DOMAIN skills_database
    THEN LET base_path == skills_database[profile.career_goal]
             modules == adjusted_modules(base_path, profile.learning_style, seed, pos)
             total == total_hours(modules)
         IN  [career_goal |-> profile.career_goal,
              modules |-> modules,
              estimated_completion |->
                  estimated_weeks(total, hours_per_week(profile.time_commitment)),
              total_hours |-> total,
              learning_style_optimized |-> TRUE]
    ELSE None

(* ---------------------------- the session ------------------------------ *)
\* The sidebar form as the user leaves it before clicking the button.  Setting
\* n takes option n (cyclically) of each select box and moves slider n
\* (cyclically) from the default "Beginner" to label n (cyclically).
FormSetting(n) ==
    [career_goal |-> career_goals[1 + (n % Len(career_goals))],
     learning_style |-> learning_styles[1 + (n % Len(learning_styles))],
     time_commitment |-> time_commitments[1 + (n % Len(time_commitments))],
     skill_responses |->
        [skill \in Range(relevant_skills) |->
            IF skill = relevant_skills[1 + (n % Len(relevant_skills))]
            THEN slider_options[1 + (n % Len(slider_options))]
            ELSE "Beginner"]]

FormSettings == {FormSetting(n) : n \in 0 .. (NumSettings - 1)}

Init ==
    /\ user_profile = <<>>
    /\ learning_path = None
    /\ progress = <<>>
    /\ last = [op |-> "none"]
    /\ clicks = 0
    /\ call = [fn |-> "idle"]
    /\ result = [kind |-> "pending"]

\* "Generate My Learning Path": builds the profile (5 random numbers for the
\* skills), then the path from it, and stores both
GenerateClick_KeepProfile(career_goal, learning_style, time_commitment, skill_responses, seed) ==
    LET profile == [career_goal |-> career_goal,
                    learning_style |-> learning_style,
                    time_commitment |-> time_commitment,
                    skill_levels |-> assess_current_skills(skill_responses, seed)]
    IN  /\ clicks < MaxClicks
        /\ clicks' = clicks + 1
        /\ user_profile' = IF user_profile = <<>> THEN profile ELSE user_profile
        /\ learning_path' = generate_personalized_path(
                                profile, seed, Cardinality(DOMAIN skill_responses))
        /\ last' = [op |-> "generate"]
        /\ UNCHANGED <<progress, call, result>>

GenerateClick(career_goal, learning_style, time_commitment, skill_responses, seed) ==
    LET profile == [career_goal |-> career_goal,
                    learning_style |-> learning_style,
                    time_commitment |-> time_commitment,
                    skill_levels |-> assess_current_skills(skill_responses, seed)]
    IN  /\ clicks < MaxClicks
        /\ clicks' = clicks + 1
        /\ user_profile' = profile
        /\ learning_path' = generate_personalized_path(
                                profile, seed, Cardinality(DOMAIN skill_responses))
        /\ last' = [op |-> "generate"]
        /\ UNCHANGED <<progress, call, result>>

start_progress_full(seed) == randint(10, 100, seed, 0)

start_progress(seed) == randint(10, 30, seed, 0)

set_progress_only(d, name, value) == (name :> value)

\* d[name] = value
set_progress(d, name, value) == (name :> value) @@ d

\* "Start <module>": the button of the i-th module of the displayed path
StartClick(i, seed) ==
    /\ learning_path # None
    /\ i \in 1 .. Len(learning_path.modules)
    /\ clicks < MaxClicks
    /\ clicks' = clicks + 1
    /\ LET name == learning_path.modules[i].name
       IN  /\ progress' = set_progress(progress, name, start_progress(seed))
           /\ last' = [op |-> "start", module |-> name,
                       before |-> get(progress, name, 0)]
    /\ UNCHANGED <<user_profile, learning_path, call, result>>

Generate ==
    \E form \in FormSettings, seed \in Seeds :
        GenerateClick(form.career_goal, form.learning_style, form.time_commitment,
                      form.skill_responses, seed)

Start == \E i \in 1 .. 4, seed \in Seeds : StartClick(i, seed)

Next == Generate \/ Start

Spec == Init /\ [][Next]_vars

\* Progress Dashboard
total_modules == Len(learning_path.modules)

completed_modules == Cardinality({m \in DOMAIN progress : progress[m] >= 100})

\* in tenths of a percent, as displayed
overall_progress == (completed_modules * 1000) \div total_modules

(* ---------------------------- the functions, called directly ----------- *)
\* call is the pending call and its arguments, result what it returned
Returned(value) == [kind |-> "return", value |-> value]

AllModules == UNION {Range(skills_database[g].modules) : g \in DOMAIN skills_database}

\* every mapping of some of the skills to a label
ResponseMappings ==
    UNION {[D -> Range(slider_options)] : D \in SUBSET Range(relevant_skills)}

\* the catalog's keys and one name that is in no table
GoalInputs == DOMAIN skills_database \cup {"Quantum Computing"}

StyleInputs == DOMAIN base_resources \cup {"Logical"}

TimeInputs == DOMAIN weekly_hours \cup {"Weekends only"}

SkillLevelInputs ==
    {[skill \in Range(relevant_skills) |-> 1], [skill \in Range(relevant_skills) |-> 10]}

Calls ==
    {[fn |-> "assess_current_skills", user_responses |-> r] : r \in ResponseMappings}
    \cup
    {[fn |-> "generate_personalized_path",
      profile |-> [career_goal |-> g, learning_style |-> s,
                   time_commitment |-> t, skill_levels |-> l]] :
        g \in GoalInputs, s \in StyleInputs, t \in TimeInputs, l \in SkillLevelInputs}
    \cup
    {[fn |-> "get_resources_for_module", module |-> m, learning_style |-> s] :
        m \in AllModules, s \in StyleInputs}

InitFn ==
    /\ user_profile = <<>>
    /\ learning_path = None
    /\ progress = <<>>
    /\ last = [op |-> "none"]
    /\ clicks = 0
    /\ call \in Calls
    /\ result = [kind |-> "pending"]

CallAssess(seed) ==
    /\ call.fn = "assess_current_skills"
    /\ result.kind = "pending"
    /\ result' = Returned(assess_current_skills(call.user_responses, seed))
    /\ UNCHANGED <<user_profile, learning_path, progress, last, clicks, call>>

CallGenerate(seed) ==
    /\ call.fn = "generate_personalized_path"
    /\ result.kind = "pending"
    /\ result' = Returned(generate_personalized_path(call.profile, seed, 0))
    /\ UNCHANGED <<user_profile, learning_path, progress, last, clicks, call>>

CallResources(seed) ==
    /\ call.fn = "get_resources_for_module"
    /\ result.kind = "pending"
    /\ result' = Returned(get_resources_for_module(call.module, call.learning_style, seed, 0))
    /\ UNCHANGED <<user_profile, learning_path, progress, last, clicks, call>>

NextFn ==
    \/ \E seed \in Seeds : CallAssess(seed)
    \/ \E seed \in Seeds : CallGenerate(seed)
    \/ \E seed \in Seeds : CallResources(seed)

SpecFn == InitFn /\ [][NextFn]_vars

(* ---------------------------- properties ------------------------------- *)
GenerateReturned ==
    call.fn = "generate_personalized_path" /\ result.kind = "return"

ModuleNames(path) == [i \in 1 .. Len(path.modules) |-> path.modules[i].name]

RECURSIVE HoursOfFirst(_, _)
HoursOfFirst(modules, n) ==
    IF n = 0 THEN 0 ELSE HoursOfFirst(modules, n - 1) + modules[n].estimated_hours

\* the number in front of " hours", -1 when the string has no such form
NumericComponent(text) ==
    IF \E n \in 0 .. 99 : text = ToString(n) \o " hours"
    THEN CHOOSE n \in 0 .. 99 : text = ToString(n) \o " hours"
    ELSE -1

\* C1: for a career goal of the catalog, the returned path lists the catalog's
\* modules of that goal, same order and same length, under the requested goal
C1_PathFollowsCatalog ==
    (GenerateReturned /\ call.profile.career_goal \in DOMAIN skills_database) =>
        /\ result.value # None
        /\ ModuleNames(result.value) = skills_database[call.profile.career_goal].modules
        /\ Len(result.value.modules) = Len(skills_database[call.profile.career_goal].modules)
        /\ result.value.career_goal = call.profile.career_goal

C1_Witness ==
    /\ GenerateReturned
    /\ call.profile.career_goal = "Web Development"
    /\ call.profile.learning_style = "Kinesthetic"
    /\ call.profile.time_commitment = "Medium (10-20 hrs/week)"
    /\ result.value # None
    /\ ModuleNames(result.value) =
          <<"Frontend Frameworks", "Backend Development", "Databases", "Deployment">>
    /\ \A i \in 1 .. 4 : result.value.modules[i].difficulty = "Intermediate"
    /\ result.value.career_goal = "Web Development"

\* C2: a career goal that is not in the catalog makes generate_personalized_path
\* fail with UnknownCareerGoal, and no path, not even a partial one, comes back
C2_UnknownGoalFails ==
    (call.fn = "generate_personalized_path"
        /\ call.profile.career_goal \notin DOMAIN skills_database
        /\ result.kind # "pending") =>
            /\ result.kind = "raise"
            /\ result.exception = "UnknownCareerGoal"

\* C3: total_hours of a returned path is the sum of the estimated_hours of its
\* modules, each counted once
C3_TotalIsSumOfModules ==
    (GenerateReturned /\ result.value # None) =>
        result.value.total_hours =
            HoursOfFirst(result.value.modules, Len(result.value.modules))

C3_Witness ==
    /\ GenerateReturned
    /\ result.value # None
    /\ \E i, j \in 1 .. Len(result.value.modules) :
          result.value.modules[i].estimated_hours # result.value.modules[j].estimated_hours
    /\ result.value.total_hours =
          HoursOfFirst(result.value.modules, Len(result.value.modules))

\* twice the hours per week the commitment labels stand for (7.5, 15, 25),
\* 15 for every other value
C4_TwiceHoursPerWeek(time_commitment) ==
    IF time_commitment = "Low (5-10 hrs/week)" THEN 15
    ELSE IF time_commitment = "High (20+ hrs/week)" THEN 50
    ELSE 30

\* C4: estimated_completion is floor(total_hours / hours_per_week) for 7.5, 15
\* or 25 hours per week (Low, Medium, High) and 15 for any other commitment;
\* Medium with 90 hours gives 6
C4_CompletionIsFloor ==
    /\ estimated_weeks(90, hours_per_week("Medium (10-20 hrs/week)")) = 6
    /\ (GenerateReturned /\ result.value # None) =>
          LET weeks == result.value.estimated_completion
              twice == C4_TwiceHoursPerWeek(call.profile.time_commitment)
          IN  /\ weeks * twice <= 2 * result.value.total_hours
              /\ 2 * result.value.total_hours < (weeks + 1) * twice

C4_Witness ==
    /\ GenerateReturned
    /\ result.value # None
    /\ call.profile.time_commitment = "Weekends only"
    /\ result.value.total_hours = 160
    /\ result.value.estimated_completion = 10

\* C5: get_resources_for_module returns one record per resource type of the
\* style, in the table's order, typed and titled "<module> - <type>"; a style
\* that is not in the table gives the single type "Mixed Resources"
C5_OneRecordPerType ==
    (call.fn = "get_resources_for_module" /\ result.kind = "return") =>
        LET types == IF call.learning_style \in DOMAIN base_resources
                     THEN base_resources[call.learning_style]
                     ELSE <<"Mixed Resources">>
        IN  /\ Len(result.value) = Len(types)
            /\ \A j \in 1 .. Len(types) :
                  /\ result.value[j].type = types[j]
                  /\ result.value[j].title = call.module \o " - " \o types[j]

C5_Witness ==
    /\ call.fn = "get_resources_for_module"
    /\ result.kind = "return"
    /\ call.module = "Databases"
    /\ call.learning_style = "Kinesthetic"
    /\ Len(result.value) = 3
    /\ result.value[1].title = "Databases - Hands-on Projects"
    /\ result.value[2].title = "Databases - Labs"
    /\ result.value[3].title = "Databases - Simulations"

\* C6: assess_current_skills keeps the skill names and gives Beginner a level
\* in 1..3, Intermediate one in 4..7 and Advanced one in 7..10
C6_LevelsInRange ==
    (call.fn = "assess_current_skills" /\ result.kind = "return") =>
        /\ DOMAIN result.value = DOMAIN call.user_responses
        /\ \A skill \in DOMAIN call.user_responses :
              /\ call.user_responses[skill] = "Beginner" => result.value[skill] \in 1 .. 3
              /\ call.user_responses[skill] = "Intermediate" => result.value[skill] \in 4 .. 7
              /\ call.user_responses[skill] = "Advanced" => result.value[skill] \in 7 .. 10
              /\ result.value[skill] \in 1 .. 10

\* the level 7 given to an Intermediate and to an Advanced skill in one call
C6_Witness ==
    /\ call.fn = "assess_current_skills"
    /\ result.kind = "return"
    /\ \E a, b \in DOMAIN call.user_responses :
          /\ call.user_responses[a] = "Intermediate" /\ result.value[a] = 7
          /\ call.user_responses[b] = "Advanced" /\ result.value[b] = 7
    /\ \E c \in DOMAIN call.user_responses :
          call.user_responses[c] = "Beginner" /\ result.value[c] \in 1 .. 3

\* C7: every module of the session's path has estimated_hours in 15..40 and
\* every resource of it a time whose number is in 2..8
C7_HoursAndTimesInRange ==
    learning_path # None =>
        \A i \in 1 .. Len(learning_path.modules) :
            /\ learning_path.modules[i].estimated_hours \in 15 .. 40
            /\ \A j \in 1 .. Len(learning_path.modules[i].resources) :
                  NumericComponent(learning_path.modules[i].resources[j].estimated_time)
                      \in 2 .. 8

C7_Witness ==
    /\ learning_path # None
    /\ last.op = "start"
    /\ \E i, k \in 1 .. Len(learning_path.modules) :
          /\ learning_path.modules[i].estimated_hours < learning_path.modules[k].estimated_hours
          /\ \E j \in 1 .. Len(learning_path.modules[k].resources) :
                learning_path.modules[k].resources[j].estimated_time = "8 hours"

\* C8: no progress value is 100 or more, so the dashboard counts no completed
\* module and shows 0 percent
C8_NeverCompleted ==
    /\ \A m \in DOMAIN progress : progress[m] < 100
    /\ completed_modules = 0
    /\ learning_path # None => overall_progress = 0

C8_Witness ==
    /\ learning_path # None
    /\ Cardinality(DOMAIN progress) = 2
    /\ \E m \in DOMAIN progress : progress[m] = 30
    /\ completed_modules = 0

\* C9: a start click sets the clicked module's progress to a value in 10..30,
\* started before or not, and leaves every other module's progress as it was
C9_StartSetsOneModule ==
    [][(clicks' = clicks + 1 /\ last'.op = "start") =>
          /\ progress'[last'.module] \in 10 .. 30
          /\ DOMAIN progress' = DOMAIN progress \cup {last'.module}
          /\ \A m \in DOMAIN progress \ {last'.module} : progress'[m] = progress[m]
          /\ last'.before = get(progress, last'.module, 0)]_vars

\* a second start of a module, which lowered its progress
C9_Witness ==
    /\ last.op = "start"
    /\ last.before = 30
    /\ progress[last.module] < 30

C10_Consistent ==
    learning_path = None \/
        /\ DOMAIN user_profile =
              {"career_goal", "learning_style", "time_commitment", "skill_levels"}
        /\ learning_path.career_goal = user_profile.career_goal

\* C10: the stored path is absent or belongs to the stored profile (same career
\* goal, profile with its four fields); generate leaves progress as it was and
\* start leaves profile and path as they were
C10_ProfileAndPathTogether ==
    /\ []C10_Consistent
    /\ [][/\ (clicks' = clicks + 1 /\ last'.op = "generate") => progress' = progress
          /\ (clicks' = clicks + 1 /\ last'.op = "start") =>
                (user_profile' = user_profile /\ learning_path' = learning_path)]_vars

\* regenerated for another goal: the profile follows, the old progress stays
C10_Witness ==
    /\ last.op = "generate"
    /\ learning_path # None
    /\ learning_path.career_goal = user_profile.career_goal
    /\ \E m \in DOMAIN progress : m \notin Range(ModuleNames(learning_path))

====
